---- MODULE Spec2Model ----
(***************************************************************************)
(* backlog-relay: four ticket adapters (GitHub, GitLab, Jira, ServiceNow)  *)
(* behind one factory.  The model follows one adapter from createClient    *)
(* through one operation: every remote call the handler issues is logged   *)
(* in `calls`, the platform answers it in RemoteResponds, and the handler  *)
(* resumes after the await in a continuation action.                       *)
(*                                                                         *)
(* JavaScript strings are sequences of one-character strings, so that      *)
(* toLowerCase, includes, trim, join and the regular expressions of the    *)
(* adapters are computed on characters.  `undefined` and `null` are the    *)
(* one-element sequences UndefStr and NullStr, which no string equals.     *)
(***************************************************************************)
EXTENDS Integers, Sequences, FiniteSets, TLC

VARIABLES
    config,     \* the TicketingPlatform value handed to createClient
    client,     \* what createClient produced: nothing yet, an adapter, or a throw
    remote,     \* the platform's tables: resource -> rows in native order
    seen,       \* the resources whose rows the run has fixed so far
    op,         \* the adapter operation in progress and its arguments
    pc,         \* the handler's position (which await it is suspended at)
    calls,      \* the remote calls issued by the operation, in issue order
    result,     \* what the operation returned or threw
    created     \* the ticket the caller kept from its createReviewRequest

vars == <<config, client, remote, seen, op, pc, calls, result, created>>

----------------------------------------------------------------------------
(* String literals of the source.                                          *)
s_open == <<"o", "p", "e", "n">>
s_closed == <<"c", "l", "o", "s", "e", "d">>
s_merged == <<"m", "e", "r", "g", "e", "d">>
s_opened == <<"o", "p", "e", "n", "e", "d">>
s_Opened == <<"O", "p", "e", "n", "e", "d">>
s_locked == <<"l", "o", "c", "k", "e", "d">>
s_all == <<"a", "l", "l">>
s_new == <<"n", "e", "w">>
s_in_progress == <<"i", "n", "_", "p", "r", "o", "g", "r", "e", "s", "s">>
s_on_hold == <<"o", "n", "_", "h", "o", "l", "d">>
s_resolved == <<"r", "e", "s", "o", "l", "v", "e", "d">>
s_pending == <<"p", "e", "n", "d", "i", "n", "g">>
s_1 == <<"1">>
s_2 == <<"2">>
s_3 == <<"3">>
s_4 == <<"4">>
s_6 == <<"6">>
s_7 == <<"7">>
s_m5 == <<"-", "5">>
s_constructor == <<"c", "o", "n", "s", "t", "r", "u", "c", "t", "o", "r">>
s_toString == <<"t", "o", "S", "t", "r", "i", "n", "g">>
s_valueOf == <<"v", "a", "l", "u", "e", "O", "f">>
s_done == <<"d", "o", "n", "e">>
s_rejected == <<"r", "e", "j", "e", "c", "t", "e", "d">>
s_Done == <<"D", "o", "n", "e">>
s_Rejected == <<"R", "e", "j", "e", "c", "t", "e", "d">>
s_InReview == <<"I", "n", " ", "R", "e", "v", "i", "e", "w">>
s_Abandoned == <<"A", "b", "a", "n", "d", "o", "n", "e", "d">>
s_bogus == <<"b", "o", "g", "u", "s">>
s_Closed == <<"C", "l", "o", "s", "e", "d">>
s_ClosedMerged == <<"C", "l", "o", "s", "e", "d", " ", "(", "M", "e", "r", "g", "e", "d", ")">>
s_see == <<"s", "e", "e", " ">>
s_SourceBranchLabel == <<"S", "o", "u", "r", "c", "e", " ", "B", "r", "a", "n", "c", "h", ":", " ">>
s_TargetBranchLabel == <<"T", "a", "r", "g", "e", "t", " ", "B", "r", "a", "n", "c", "h", ":", " ">>
s_ReviewersLabel == <<"R", "e", "v", "i", "e", "w", "e", "r", "s", ":", " ">>
s_NoneAssigned == <<"N", "o", "n", "e", " ", "a", "s", "s", "i", "g", "n", "e", "d">>
s_unknown == <<"u", "n", "k", "n", "o", "w", "n">>
s_CodeReview == <<"C", "o", "d", "e", " ", "R", "e", "v", "i", "e", "w">>
s_Review == <<"R", "e", "v", "i", "e", "w">>
s_Task == <<"T", "a", "s", "k">>
s_code_review == <<"c", "o", "d", "e", "-", "r", "e", "v", "i", "e", "w">>
s_normal == <<"n", "o", "r", "m", "a", "l">>
s_featx == <<"f", "e", "a", "t", "/", "x">>
s_main == <<"m", "a", "i", "n">>
s_dev == <<"d", "e", "v">>
s_commaSpace == <<",", " ">>
s_comma == <<",">>
s_ToDo == <<"T", "o", " ", "D", "o">>
s_fix == <<"f", "i", "x">>
s_lineBreak == <<"\n">>
s_templateTail == <<"\n", " ", " ", " ", " ">>
s_stateEq == <<"s", "t", "a", "t", "e", "=">>
s_assignedToEq == <<"a", "s", "s", "i", "g", "n", "e", "d", "_", "t", "o", "=">>
s_caret == <<"^">>
s_sysparmQuery == <<"?", "s", "y", "s", "p", "a", "r", "m", "_", "q", "u", "e", "r", "y", "=">>
s_projectEq == <<"p", "r", "o", "j", "e", "c", "t", " ", "=", " ">>
s_andStatusEq == <<" ", "A", "N", "D", " ", "s", "t", "a", "t", "u", "s", " ", "=", " ", "\"">>
s_andAssigneeEq == <<" ", "A", "N", "D", " ", "a", "s", "s", "i", "g", "n", "e", "e", " ", "=", " ", "\"">>
s_quote == <<"\"">>
s_PROJ == <<"P", "R", "O", "J">>
s_bug == <<"b", "u", "g">>
s_u42 == <<"4", "2">>
s_alice == <<"a", "l", "i", "c", "e">>
s_bob == <<"b", "o", "b">>
s_T == <<"T">>
s_D == <<"D">>
s_lgtm == <<"l", "g", "t", "m">>
s_other == <<"o", "t", "h", "e", "r">>

UndefStr == <<"undefined">>
NullStr == <<"null">>
UndefList == <<UndefStr>>
\* a value inherited from Object.prototype (a function or object, never a string)
InheritedValue == <<"[object Object.prototype member]">>

----------------------------------------------------------------------------
(* JavaScript string and array primitives the adapters use.                *)

Min(S) == CHOOSE x \in S : \A y \in S : x <= y

UpperCase == <<"A", "B", "C", "D", "E", "F", "G", "H", "I", "J", "K", "L", "M",
               "N", "O", "P", "Q", "R", "S", "T", "U", "V", "W", "X", "Y", "Z">>
LowerCase == <<"a", "b", "c", "d", "e", "f", "g", "h", "i", "j", "k", "l", "m",
               "n", "o", "p", "q", "r", "s", "t", "u", "v", "w", "x", "y", "z">>

toLowerChar(c) ==
    IF \E i \in 1..26 : UpperCase[i] = c
    THEN LowerCase[CHOOSE i \in 1..26 : UpperCase[i] = c]
    ELSE c

\* String.prototype.toLowerCase
toLowerCase(s) == [i \in 1..Len(s) |-> toLowerChar(s[i])]

\* String.prototype.includes
includes(s, sub) ==
    \E i \in 1..(Len(s) - Len(sub) + 1) : SubSeq(s, i, i + Len(sub) - 1) = sub

\* the truthiness test of `x ? a : b`, `x || d` and `if (x)` on a string
Truthy(s) == s # UndefStr /\ s # NullStr /\ Len(s) > 0

\* x || d on strings
OrElse(s, d) == IF Truthy(s) THEN s ELSE d

IsSpace(c) == c \in {" ", "\n", "\r", "\t"}

RECURSIVE trimStart(_)
trimStart(s) == IF Len(s) > 0 /\ IsSpace(s[1]) THEN trimStart(Tail(s)) ELSE s

RECURSIVE trimEnd(_)
trimEnd(s) ==
    IF Len(s) > 0 /\ IsSpace(s[Len(s)]) THEN trimEnd(SubSeq(s, 1, Len(s) - 1)) ELSE s

\* String.prototype.trim
trim(s) == trimEnd(trimStart(s))

\* Array.prototype.join
RECURSIVE join(_, _)
join(list, sep) ==
    IF Len(list) = 0 THEN <<>>
    ELSE IF Len(list) = 1 THEN list[1]
    ELSE list[1] \o sep \o join(Tail(list), sep)

\* the characters `.` does not match and `$` (flag m) stops before
IsLineTerminator(c) == c \in {"\n", "\r"}

\* the rest of the line of s that starts at position i
LineRest(s, i) ==
    LET stops == {j \in i..Len(s) : IsLineTerminator(s[j])}
        last == IF stops = {} THEN Len(s) ELSE Min(stops) - 1
    IN SubSeq(s, i, last)

\* description.match(/<label>(.+)$/m)?.[1], UndefStr when there is no match:
\* the leftmost place where the label is followed by at least one character
\* of the same line; group 1 is the rest of that line
matchLabel(s, label) ==
    LET n == Len(label)
        hits == {i \in 1..(Len(s) - n + 1) :
                    /\ SubSeq(s, i, i + n - 1) = label
                    /\ LineRest(s, i + n) # <<>>}
    IN IF hits = {} THEN UndefStr ELSE LineRest(s, Min(hits) + n)

Digits == <<"0", "1", "2", "3", "4", "5", "6", "7", "8", "9">>
IsDigit(c) == \E d \in 1..10 : Digits[d] = c
DigitVal(c) == (CHOOSE d \in 1..10 : Digits[d] = c) - 1
NaN == -1

\* parseInt on an unsigned decimal string: the value of the leading digits
RECURSIVE parseDigits(_, _)
parseDigits(s, acc) ==
    IF Len(s) > 0 /\ IsDigit(s[1])
    THEN parseDigits(Tail(s), 10 * acc + DigitVal(s[1]))
    ELSE acc
parseInt(s) ==
    LET t == trimStart(s)
    IN IF Len(t) > 0 /\ IsDigit(t[1]) THEN parseDigits(t, 0) ELSE NaN

\* Number.prototype.toString for a non-negative integer
RECURSIVE numToString(_)
numToString(n) ==
    IF n < 10 THEN <<Digits[n + 1]>>
    ELSE numToString(n \div 10) \o <<Digits[(n % 10) + 1]>>

----------------------------------------------------------------------------
(* Raw platform records and the shared ticket model.                       *)
(*                                                                         *)
(* One record shape serves the four platforms:                             *)
(*   exists    FALSE for the empty slot of a table                         *)
(*   defined   FALSE when the body the transport delivered is not the      *)
(*             record the normalizer dereferences (`data.result` absent, a *)
(*             missing `author`/`user`/`fields.issuetype` object)          *)
(*   num       GitHub `number`, GitLab `iid`                               *)
(*   key       Jira `key`, ServiceNow `sys_id`                             *)
(*   marker    GitHub: the key `pull_request` is present;                  *)
(*             GitLab: the key `source_branch` is present                  *)
(*   hasHead   GitHub: the objects `head` and `base` are present           *)
(*   src, tgt  GitHub head.ref/base.ref, GitLab source_/target_branch      *)
(*   cls       ServiceNow sys_class_name                                   *)
(*   category  ServiceNow category                                         *)
(*   issuetype Jira fields.issuetype.name                                  *)
(*   state     GitHub/GitLab/ServiceNow state, Jira fields.status.name     *)
(***************************************************************************)

Platforms == {"github", "gitlab", "jira", "servicenow"}

TABLE_INCIDENT == "incident"
TABLE_CHANGE_REQUEST == "change_request"

BlankRow ==
    [exists |-> TRUE, defined |-> TRUE, num |-> 0, key |-> <<>>, title |-> <<"t">>,
     description |-> NullStr, state |-> <<>>, marker |-> FALSE, hasHead |-> FALSE,
     src |-> UndefStr, tgt |-> UndefStr, cls |-> "", category |-> <<>>,
     issuetype |-> <<>>, assignee |-> UndefStr, reviewers |-> <<>>,
     watchers |-> <<>>, labels |-> <<>>, notes |-> <<>>, work_notes |-> <<>>]

\* the body of a response that carries no usable record
UndefinedBody == [BlankRow EXCEPT !.defined = FALSE]

NoTicket ==
    [type |-> "none", id |-> <<>>, title |-> <<>>, description |-> <<>>,
     status |-> <<>>, state |-> UndefStr, sourceBranch |-> UndefStr,
     targetBranch |-> UndefStr, assignee |-> UndefStr]

Returned(t) == [ok |-> TRUE, ticket |-> t]
Thrown == [ok |-> FALSE, ticket |-> NoTicket]

IssueOf(base) == [base EXCEPT !.type = "issue"]
PullRequestOf(base, src, tgt, st) ==
    [base EXCEPT !.type = "pullRequest", !.sourceBranch = src,
                 !.targetBranch = tgt, !.state = st]

----------------------------------------------------------------------------
(* Status tables.                                                          *)

\* the names every object literal inherits from Object.prototype
ObjectPrototypeKeys == {s_constructor, s_toString, s_valueOf}

\* obj[key] on an object literal: own property, else inherited, else undefined
PropertyOf(obj, key) ==
    IF key \in DOMAIN obj THEN obj[key]
    ELSE IF key \in ObjectPrototypeKeys THEN InheritedValue
    ELSE UndefStr

ServiceNowStateMap ==
    (s_1 :> s_new) @@ (s_2 :> s_in_progress) @@ (s_3 :> s_on_hold) @@
    (s_6 :> s_resolved) @@ (s_7 :> s_closed) @@ (s_m5 :> s_pending)

ServiceNowReverseMap ==
    (s_new :> s_1) @@ (s_in_progress :> s_2) @@ (s_on_hold :> s_3) @@
    (s_resolved :> s_6) @@ (s_closed :> s_7) @@ (s_pending :> s_m5)

SNNormalizeStatus(status) == OrElse(PropertyOf(ServiceNowStateMap, status), status)

SNMapStatusToServiceNow(status) ==
    OrElse(PropertyOf(ServiceNowReverseMap, toLowerCase(status)), s_1)

SNMapServiceNowStateToPRState(state) ==
    CASE state \in {s_3, s_1, s_2, s_m5} -> s_open
      [] state = s_6 -> s_merged
      [] state = s_7 -> s_closed
      [] OTHER -> s_open

\* the derivation with the closed test made first
JiraMapJiraStatusClosedFirst(status) ==
    LET lowerStatus == toLowerCase(status)
    IN IF includes(lowerStatus, s_closed) \/ includes(lowerStatus, s_rejected)
       THEN s_closed
       ELSE IF includes(lowerStatus, s_done) \/ includes(lowerStatus, s_merged)
       THEN s_merged
       ELSE s_open

JiraMapJiraStatusToPRState(status) ==
    LET lowerStatus == toLowerCase(status)
    IN IF includes(lowerStatus, s_done) \/ includes(lowerStatus, s_merged)
       THEN s_merged
       ELSE IF includes(lowerStatus, s_closed) \/ includes(lowerStatus, s_rejected)
       THEN s_closed
       ELSE s_open

GLMapStatus(status) ==
    IF ~Truthy(status) THEN UndefStr
    ELSE CASE toLowerCase(status) = s_open -> s_opened
           [] toLowerCase(status) = s_closed -> s_closed
           [] OTHER -> UndefStr

GLNormalizeStatus(status) ==
    IF toLowerCase(status) = s_opened THEN s_open ELSE status

----------------------------------------------------------------------------
(* normalizeTicket of each adapter.  A TypeError inside it is Thrown.      *)

AssigneeOf(pt) == IF Truthy(pt.assignee) THEN pt.assignee ELSE UndefStr

GHNormalizeTicket(pt) ==
    IF ~pt.defined THEN Thrown
    ELSE LET base == [NoTicket EXCEPT
                        !.id = numToString(pt.num),
                        !.title = pt.title,
                        !.description = OrElse(pt.description, <<>>),
                        !.status = pt.state,
                        !.assignee = AssigneeOf(pt)]
         IN IF pt.marker
            THEN IF pt.hasHead
                 THEN Returned(PullRequestOf(base, pt.src, pt.tgt, pt.state))
                 ELSE Thrown    \* platformTicket.head is undefined
            ELSE Returned(IssueOf(base))

GLNormalizeTicket(pt) ==
    IF ~pt.defined THEN Thrown
    ELSE LET base == [NoTicket EXCEPT
                        !.id = numToString(pt.num),
                        !.title = pt.title,
                        !.description = OrElse(pt.description, <<>>),
                        !.status = GLNormalizeStatus(pt.state),
                        !.assignee = AssigneeOf(pt)]
         IN IF pt.marker
            THEN Returned(PullRequestOf(base, pt.src, pt.tgt, pt.state))
            ELSE Returned(IssueOf(base))

\* sourceBranchMatch?.[1] || "unknown"
ExtractBranch(description, label) == OrElse(matchLabel(description, label), s_unknown)

JiraNormalizeTicket(pt) ==
    IF ~pt.defined THEN Thrown
    ELSE LET base == [NoTicket EXCEPT
                        !.id = pt.key,
                        !.title = pt.title,
                        !.description = OrElse(pt.description, <<>>),
                        !.status = toLowerCase(pt.state),
                        !.assignee = AssigneeOf(pt)]
             description == OrElse(pt.description, <<>>)
         IN IF pt.issuetype = s_Review
            THEN Returned(PullRequestOf(base,
                     ExtractBranch(description, s_SourceBranchLabel),
                     ExtractBranch(description, s_TargetBranchLabel),
                     JiraMapJiraStatusToPRState(pt.state)))
            ELSE Returned(IssueOf(base))

\* normalizeTicket deciding by the category alone
SNNormalizeTicketByCategory(pt) ==
    IF ~pt.defined THEN Thrown
    ELSE LET base == [NoTicket EXCEPT
                        !.id = pt.key,
                        !.title = pt.title,
                        !.description = OrElse(pt.description, <<>>),
                        !.status = SNNormalizeStatus(pt.state),
                        !.assignee = AssigneeOf(pt)]
             description == OrElse(pt.description, <<>>)
         IN IF pt.category = s_CodeReview
            THEN Returned(PullRequestOf(base,
                     ExtractBranch(description, s_SourceBranchLabel),
                     ExtractBranch(description, s_TargetBranchLabel),
                     SNMapServiceNowStateToPRState(pt.state)))
            ELSE Returned(IssueOf(base))

SNNormalizeTicket(pt) ==
    IF ~pt.defined THEN Thrown
    ELSE LET base == [NoTicket EXCEPT
                        !.id = pt.key,
                        !.title = pt.title,
                        !.description = OrElse(pt.description, <<>>),
                        !.status = SNNormalizeStatus(pt.state),
                        !.assignee = AssigneeOf(pt)]
             description == OrElse(pt.description, <<>>)
         IN IF pt.cls = TABLE_CHANGE_REQUEST /\ pt.category = s_CodeReview
            THEN Returned(PullRequestOf(base,
                     ExtractBranch(description, s_SourceBranchLabel),
                     ExtractBranch(description, s_TargetBranchLabel),
                     SNMapServiceNowStateToPRState(pt.state)))
            ELSE Returned(IssueOf(base))

normalizeTicket(platform, pt) ==
    CASE platform = "github" -> GHNormalizeTicket(pt)
      [] platform = "gitlab" -> GLNormalizeTicket(pt)
      [] platform = "jira" -> JiraNormalizeTicket(pt)
      [] platform = "servicenow" -> SNNormalizeTicket(pt)

----------------------------------------------------------------------------
(* The factory.                                                            *)

NoError == [name |-> "", text |-> "", tag |-> ""]
NoClient == [kind |-> "none", platform |-> "", error |-> NoError]
Adapter(p) == [kind |-> "adapter", platform |-> p, error |-> NoError]
Failed(e) == [kind |-> "error", platform |-> "", error |-> e]

\* reading config.auth.<x> when config.auth is undefined
TypeErrorValue == [name |-> "TypeError", text |-> "Cannot read properties of undefined", tag |-> ""]

\* new GitHubClient(config): reads config.auth.apiToken
NewGitHubClient(cfg) ==
    IF "auth" \in cfg.fields THEN Adapter("github") ELSE Failed(TypeErrorValue)

\* new ServiceNowClient(config): reads config.auth.type
NewServiceNowClient(cfg) ==
    IF "auth" \in cfg.fields THEN Adapter("servicenow") ELSE Failed(TypeErrorValue)

createClient(cfg) ==
    CASE cfg.type = "github" -> NewGitHubClient(cfg)
      [] cfg.type = "gitlab" ->
            IF ~("apiToken" \in cfg.fields /\ "projectId" \in cfg.fields)
            THEN Failed([name |-> "Error", text |-> "Invalid GitLab configuration", tag |-> ""])
            ELSE Adapter("gitlab")
      [] cfg.type = "jira" ->
            IF ~("apiToken" \in cfg.fields /\ "email" \in cfg.fields
                    /\ "projectKey" \in cfg.fields)
            THEN Failed([name |-> "Error", text |-> "Invalid Jira configuration", tag |-> ""])
            ELSE Adapter("jira")
      [] cfg.type = "servicenow" -> NewServiceNowClient(cfg)
      [] OTHER ->
            Failed([name |-> "Error", text |-> "Unknown platform type: ", tag |-> cfg.type])

\* the fields each declared type requires (GitHubConfig, GitLabConfig,
\* JiraConfig, ServiceNowConfig)
RequiredFields(type) ==
    CASE type = "github" -> {"owner", "repo", "auth"}
      [] type = "gitlab" -> {"apiToken", "projectId"}
      [] type = "jira" -> {"apiToken", "email", "projectKey"}
      [] type = "servicenow" -> {"instance", "auth"}
      [] OTHER -> {}

\* the configurations a caller may pass: a known tag with any part of its
\* fields, or a tag no adapter knows
Configs ==
    UNION {{[type |-> t, fields |-> f] : f \in SUBSET RequiredFields(t)} : t \in Platforms}
    \cup {[type |-> "bitbucket", fields |-> {}]}

----------------------------------------------------------------------------
(* The platform behind the transport.  A table is a map from row ids to    *)
(* rows.  What a table holds is not known to the adapter, so a cell gets   *)
(* its content the first time a call reaches it (`seen` records which      *)
(* cells are fixed); afterwards the platform answers from the stored rows  *)
(* and applies the writes it accepts.                                      *)

MaxRows == 2

ProbeIds == 7..(6 + MaxRows)
NewId == 6 + MaxRows + 1
Ids == ProbeIds \cup {NewId}

Resources == {"pulls", "issues", "merge_requests", "issue", TABLE_INCIDENT, TABLE_CHANGE_REQUEST}

\* the resource probed first and the general resource of each platform
ReviewResource(p) ==
    CASE p = "github" -> "pulls"
      [] p = "gitlab" -> "merge_requests"
      [] p = "servicenow" -> TABLE_CHANGE_REQUEST
      [] p = "jira" -> "issue"
GeneralResource(p) ==
    CASE p = "github" -> "issues"
      [] p = "gitlab" -> "issues"
      [] p = "servicenow" -> TABLE_INCIDENT
      [] p = "jira" -> "issue"

AbsentRow == [BlankRow EXCEPT !.exists = FALSE]

d_plain == s_fix
\* a description whose source label follows other text on its line and whose
\* target label has no value
d_inline == s_see \o s_SourceBranchLabel \o s_dev \o s_lineBreak \o s_TargetBranchLabel

d_labelled ==
    s_fix \o s_lineBreak \o s_lineBreak \o s_SourceBranchLabel \o s_featx \o s_lineBreak
    \o s_TargetBranchLabel \o s_main \o s_lineBreak \o s_ReviewersLabel \o s_NoneAssigned

Branches(r) == [r EXCEPT !.src = s_featx, !.tgt = s_main]

\* the records a platform may hold under one id, by resource
RowPool(p, res) ==
    CASE p = "github" /\ res = "pulls" ->
            {Branches([BlankRow EXCEPT !.state = st, !.marker = m, !.hasHead = TRUE]) :
                st \in {s_open, s_closed}, m \in BOOLEAN}
      [] p = "github" /\ res = "issues" ->
            {[BlankRow EXCEPT !.state = s_open, !.marker = m] : m \in BOOLEAN}
            \cup {[BlankRow EXCEPT !.state = s_closed, !.description = d_plain]}
      [] p = "gitlab" /\ res = "merge_requests" ->
            {Branches([BlankRow EXCEPT !.state = st, !.marker = TRUE]) :
                st \in {s_opened, s_closed, s_merged, s_locked}}
            \cup {[BlankRow EXCEPT !.state = s_opened]}
      [] p = "gitlab" /\ res = "issues" ->
            {[BlankRow EXCEPT !.state = st, !.description = d_plain] :
                st \in {s_opened, s_closed}}
            \cup {Branches([BlankRow EXCEPT !.state = s_opened, !.marker = TRUE])}
      [] p = "jira" /\ res = "issue" ->
            {[BlankRow EXCEPT !.issuetype = s_Review, !.state = s_InReview, !.description = d_labelled],
             [BlankRow EXCEPT !.issuetype = s_Review, !.state = s_Done, !.description = d_labelled],
             [BlankRow EXCEPT !.issuetype = s_Review, !.state = s_Rejected],
             [BlankRow EXCEPT !.issuetype = s_Review, !.state = s_ClosedMerged,
                              !.description = d_inline],
             [BlankRow EXCEPT !.issuetype = s_Review, !.state = s_Abandoned, !.description = d_plain],
             [BlankRow EXCEPT !.issuetype = s_Task, !.state = s_Done, !.description = d_plain]}
      [] p = "servicenow" /\ res = TABLE_CHANGE_REQUEST ->
            {[BlankRow EXCEPT !.cls = res, !.category = s_CodeReview, !.state = s_1, !.description = d_labelled],
             [BlankRow EXCEPT !.cls = res, !.category = s_CodeReview, !.state = s_6],
             [BlankRow EXCEPT !.cls = res, !.category = s_CodeReview, !.state = s_3, !.description = d_inline],
             [BlankRow EXCEPT !.cls = res, !.category = s_CodeReview, !.state = s_7, !.description = d_labelled],
             [BlankRow EXCEPT !.cls = res, !.category = s_CodeReview, !.state = s_4, !.description = d_plain],
             [BlankRow EXCEPT !.cls = res, !.category = s_other, !.state = s_2, !.description = d_labelled]}
      [] p = "servicenow" /\ res = TABLE_INCIDENT ->
            {[BlankRow EXCEPT !.cls = res, !.category = s_other, !.state = s_1, !.description = d_plain],
             [BlankRow EXCEPT !.cls = res, !.category = s_CodeReview, !.state = s_3, !.description = d_labelled],
             [BlankRow EXCEPT !.cls = res, !.category = s_other, !.state = s_m5],
             [BlankRow EXCEPT !.cls = res, !.category = s_other, !.state = s_constructor]}
      [] OTHER -> {}

WithId(r, i) == [r EXCEPT !.num = i, !.key = numToString(i)]

\* what the cell (res, i) may hold before the run first reaches it: nothing,
\* or any record of the pool (one fixed record for the ids after the first)
RowChoices(p, res, i) ==
    LET pool == RowPool(p, res)
    IN IF i = NewId \/ pool = {} THEN {AbsentRow}
       ELSE IF i = Min(ProbeIds) THEN {AbsentRow} \cup {WithId(r, i) : r \in pool}
       ELSE {AbsentRow, WithId(CHOOSE r \in pool : TRUE, i)}

----------------------------------------------------------------------------
(* Remote calls.  A call names the resource, the verb, the record it       *)
(* addresses (by number on GitHub and GitLab, by key on Jira and           *)
(* ServiceNow), the payload and the query, and carries the response once   *)
(* the platform has answered.                                              *)

EmptyFn == [x \in {} |-> x]

\* a property whose value is undefined is not sent
FieldS(k, v) == IF v = UndefStr THEN EmptyFn ELSE k :> v
FieldL(k, v) == IF v = UndefList THEN EmptyFn ELSE k :> v

Pending == [status |-> "pending", at |-> 0, defined |-> TRUE, body |-> BlankRow, rows |-> <<>>]
Ok(row) == [status |-> "ok", at |-> 0, defined |-> TRUE, body |-> row, rows |-> <<>>]
OkRows(rows) == [status |-> "ok", at |-> 0, defined |-> TRUE, body |-> BlankRow, rows |-> rows]
NotFound == [status |-> "notfound", at |-> 0, defined |-> TRUE, body |-> BlankRow, rows |-> <<>>]
TransportError == [status |-> "error", at |-> 0, defined |-> TRUE, body |-> BlankRow, rows |-> <<>>]

Call(res, verb, num, key, payload, query) ==
    [res |-> res, verb |-> verb, num |-> num, key |-> key,
     payload |-> payload, query |-> query, resp |-> Pending]
ByNum(res, verb, num, payload) == Call(res, verb, num, UndefStr, payload, EmptyFn)
ByKey(res, verb, key, payload) == Call(res, verb, NaN, key, payload, EmptyFn)
Create(res, payload) == Call(res, "create", NaN, UndefStr, payload, EmptyFn)
List(res, query) == Call(res, "list", NaN, UndefStr, EmptyFn, query)

\* the row id a call addresses, 0 when it addresses none of the table
TargetOf(c) ==
    IF c.key # UndefStr
    THEN IF \E i \in Ids : numToString(i) = c.key
         THEN CHOOSE i \in Ids : numToString(i) = c.key
         ELSE 0
    ELSE IF c.num \in Ids THEN c.num ELSE 0

\* the cells a call reads or writes
Touched(c) ==
    CASE c.verb = "list" -> ProbeIds
      [] c.verb = "create" -> {}
      [] OTHER -> {TargetOf(c)} \cap Ids

\* the cells whose content a served call settles
Settles(c) == IF c.verb = "create" THEN {NewId} ELSE Touched(c)

\* the tables once the cells of `ids` in `res` are fixed
Fixings(p, res, ids) ==
    LET unseen == {i \in ids : <<res, i>> \notin seen}
        all == UNION {RowChoices(p, res, i) : i \in unseen}
    IN {[cell \in DOMAIN remote |->
            IF cell[1] = res /\ cell[2] \in unseen THEN f[cell[2]] ELSE remote[cell]] :
        f \in {g \in [unseen -> all] : \A i \in unseen : g[i] \in RowChoices(p, res, i)}}

\* how the platform stores one payload property
StoreField(row, k, v) ==
    CASE k \in {"title", "short_description", "summary"} -> [row EXCEPT !.title = v]
      [] k \in {"description", "body"} -> [row EXCEPT !.description = v]
      [] k \in {"assigned_to", "assignee"} -> [row EXCEPT !.assignee = v]
      [] k = "assignees" -> [row EXCEPT !.assignee = IF Len(v) = 0 THEN UndefStr ELSE v[1]]
      [] k = "assigneeIds" ->
            [row EXCEPT !.assignee = IF v[1] = NaN THEN UndefStr ELSE numToString(v[1])]
      [] k = "labels" -> [row EXCEPT !.labels = v]
      [] k = "category" -> [row EXCEPT !.category = v]
      [] k = "work_notes" -> [row EXCEPT !.work_notes = v]
      [] k = "watch_list" -> [row EXCEPT !.watchers = v]
      [] k = "issuetype" -> [row EXCEPT !.issuetype = v]
      [] k \in {"head", "source_branch"} -> [row EXCEPT !.src = v]
      [] k \in {"base", "target_branch"} -> [row EXCEPT !.tgt = v]
      [] k = "reviewers" -> [row EXCEPT !.reviewers = v]
      [] k = "watcher" -> [row EXCEPT !.watchers = Append(@, v)]
      [] k = "note" -> [row EXCEPT !.notes = Append(@, v)]
      [] OTHER -> row

RECURSIVE StoreFields(_, _, _)
StoreFields(row, payload, keys) ==
    IF keys = {} THEN row
    ELSE LET k == CHOOSE x \in keys : TRUE
         IN StoreFields(StoreField(row, k, payload[k]), payload, keys \ {k})

Patched(row, payload) == StoreFields(row, payload, DOMAIN payload)

\* the records a create call may produce
CreatedRows(p, c) ==
    LET fresh == WithId([BlankRow EXCEPT !.cls = c.res], NewId)
        made(r) == Patched(r, c.payload)
    IN CASE p = "github" /\ c.res = "pulls" ->
                {made([fresh EXCEPT !.state = s_open, !.hasHead = TRUE, !.marker = m]) :
                    m \in BOOLEAN}
         [] p = "github" -> {made([fresh EXCEPT !.state = s_open])}
         [] p = "gitlab" /\ c.res = "merge_requests" ->
                {made([fresh EXCEPT !.state = s_opened, !.marker = TRUE])}
         [] p = "gitlab" -> {made([fresh EXCEPT !.state = s_opened])}
         [] p = "jira" -> {made([fresh EXCEPT !.state = s_ToDo])}
         [] p = "servicenow" -> {made([fresh EXCEPT !.state = s_1])}

\* the orders in which a list call may return the rows of `ids`
Orders(ids) ==
    {o \in [1..Cardinality(ids) -> ids] : \A i, j \in DOMAIN o : i # j => o[i] # o[j]}

\* the platform serving call c on tables rm: the new tables and the response
Serve(p, c, rm) ==
    LET i == TargetOf(c)
        cell == <<c.res, i>>
        found == i \in Ids /\ rm[cell].exists
        same(resp) == {[remote |-> rm, resp |-> resp]}
        write(row, body) == {[remote |-> [rm EXCEPT ![cell] = row], resp |-> Ok(body)]}
    IN CASE c.verb = "list" ->
                LET present == {j \in Ids : rm[<<c.res, j>>].exists}
                IN {[remote |-> rm,
                     resp |-> OkRows([n \in DOMAIN o |-> rm[<<c.res, o[n]>>]])] :
                        o \in Orders(present)}
         [] c.verb = "create" ->
                {[remote |-> [rm EXCEPT ![<<c.res, NewId>>] = r], resp |-> Ok(r)] :
                    r \in CreatedRows(p, c)}
         [] ~found -> same(NotFound)
         [] c.verb = "get" -> same(Ok(rm[cell]))
         [] c.verb = "note" ->
                write(Patched(rm[cell], c.payload),
                      [BlankRow EXCEPT !.num = 1, !.key = <<"1">>,
                                       !.description = c.payload["note"]])
         [] OTHER -> write(Patched(rm[cell], c.payload), Patched(rm[cell], c.payload))

\* every way the platform may answer call c: the transport rejects it
\* (authentication, network, validation), or the platform serves it and the
\* body arrives either as the record or as something the adapter cannot
\* dereference (a list body of that kind shows nothing of the table)
Outcomes(p, c) ==
    {[remote |-> remote, seen |-> seen, resp |-> TransportError]}
    \cup (IF c.verb = "list"
          THEN {[remote |-> remote, seen |-> seen,
                 resp |-> [OkRows(<<>>) EXCEPT !.defined = FALSE]]}
          ELSE {})
    \cup UNION {
        UNION {
            {[remote |-> o.remote, seen |-> seen \cup ({c.res} \X Settles(c)),
              resp |-> o.resp]}
            \cup (IF o.resp.status = "ok" /\ c.verb # "list"
                  THEN {[remote |-> o.remote, seen |-> seen \cup ({c.res} \X Settles(c)),
                         resp |-> [o.resp EXCEPT !.defined = FALSE]]}
                  ELSE {}) :
            o \in Serve(p, c, rm)} :
        rm \in Fixings(p, c.res, Touched(c))}

----------------------------------------------------------------------------
(* The caller's inputs.                                                    *)

NoOp == [name |-> "none", ticketId |-> UndefStr, options |-> EmptyFn, comment |-> UndefStr]
NoComment == [id |-> <<>>, content |-> <<>>]
NoResult ==
    [status |-> "none", ticket |-> NoTicket, list |-> <<>>, comment |-> NoComment,
     error |-> ""]

\* options.<k> of an options object: undefined when the key is absent
GetS(o, k) == IF k \in DOMAIN o THEN o[k] ELSE UndefStr
GetL(o, k) == IF k \in DOMAIN o THEN o[k] ELSE UndefList

\* every object with some of the keys of `choices`, each with one of its values
RECURSIVE Objects(_, _)
Objects(keys, choices) ==
    IF keys = {} THEN {EmptyFn}
    ELSE LET k == CHOOSE x \in keys : TRUE
             rest == Objects(keys \ {k}, choices)
         IN rest \cup {(k :> v) @@ o : v \in choices[k], o \in rest}

\* the id the caller asks for: the id of the ticket it created, if it kept one
TicketIds == IF created.type = "none" THEN {numToString(Min(ProbeIds))} ELSE {created.id}

\* getTickets(options?)
Filters ==
    {o \in Objects({"status", "assigneeId"},
                   [status |-> {s_open, s_closed, s_new, s_bogus}, assigneeId |-> {s_u42}]) :
        "assigneeId" \in DOMAIN o => GetS(o, "status") \in {UndefStr, s_bogus}}

\* Partial<CreateTicketOptions>
Updates ==
    Objects({"title", "description", "assigneeId", "labels"},
            [title |-> {<<>>, s_T}, description |-> {<<>>, s_D},
             assigneeId |-> {<<>>, s_u42}, labels |-> {<<>>, <<s_bug>>}])

\* CreateTicketOptions: title and description are required
TicketOptions == {o \in Updates : {"title", "description"} \subseteq DOMAIN o /\ o["title"] = s_T}

d_quoting == s_SourceBranchLabel \o s_dev

\* CreateReviewRequest: title, description and the branches are required
ReviewRequests ==
    {(("title" :> s_T) @@ ("description" :> d) @@ ("sourceBranch" :> s)
        @@ ("targetBranch" :> s_main)) @@ o :
        d \in {<<>>, s_fix, d_quoting}, s \in {s_featx, s_dev},
        o \in Objects({"reviewers", "labels"},
                      [reviewers |-> {<<>>, <<s_alice>>, <<s_alice, s_bob>>},
                       labels |-> {<<s_bug>>}])}

Comments == {s_lgtm}

----------------------------------------------------------------------------
(* Steps shared by the handlers.                                           *)

Resp(k) == calls[k].resp
Body(k) == IF Resp(k).defined THEN Resp(k).body ELSE UndefinedBody

\* the handler is suspended at `label` on call k and call k has settled
At(label, k) == pc = label /\ Resp(k).status # "pending"

\* the rejection of a failed call
ErrorOf(resp) == IF resp.status = "notfound" THEN "NotFound" ELSE "TransportFailure"

\* the caller invokes an operation: the handler runs to its first await
Invoke(p, o, first, label) ==
    /\ client.kind = "adapter" /\ client.platform = p
    /\ pc = "idle"
    /\ op' = o
    /\ calls' = first
    /\ pc' = label
    /\ UNCHANGED <<config, client, remote, seen, result, created>>

\* the handler issues call c and suspends at `label`
Await(c, label) ==
    /\ calls' = Append(calls, c)
    /\ pc' = label
    /\ UNCHANGED <<config, client, remote, seen, op, result, created>>

Settle(r) ==
    /\ result' = r
    /\ pc' = "done"
    /\ UNCHANGED <<config, client, remote, seen, op, calls, created>>

ReturnTicket(t) == Settle([NoResult EXCEPT !.status = "returned", !.ticket = t])
ReturnList(l) == Settle([NoResult EXCEPT !.status = "returned", !.list = l])
ReturnComment(c) == Settle([NoResult EXCEPT !.status = "returned", !.comment = c])
Throw(e) == Settle([NoResult EXCEPT !.status = "thrown", !.error = e])

\* `return this.normalizeTicket(body)`
ReturnNormalized(p, body) ==
    LET n == normalizeTicket(p, body)
    IN IF n.ok THEN ReturnTicket(n.ticket) ELSE Throw("TypeError")

\* `const x = await call; return this.normalizeTicket(x)` outside any try
Finish(p, k) ==
    IF Resp(k).status = "ok" THEN ReturnNormalized(p, Body(k)) ELSE Throw(ErrorOf(Resp(k)))

\* `try { const x = await call; return this.normalizeTicket(x) } catch { await fallback }`:
\* the catch clause takes every rejection of the call and every throw of normalizeTicket
TryNormalizedElse(p, k, fallback, label) ==
    LET n == normalizeTicket(p, Body(k))
    IN IF Resp(k).status = "ok" /\ n.ok THEN ReturnTicket(n.ticket) ELSE Await(fallback, label)

\* rows.map((r) => this.normalizeTicket(r))
NormalizedAll(p, rows) == [i \in DOMAIN rows |-> normalizeTicket(p, rows[i])]
AllOk(ns) == \A i \in DOMAIN ns : ns[i].ok
TicketsOf(ns) == [i \in DOMAIN ns |-> ns[i].ticket]

\* `const rows = await call; return rows.map(normalize)` outside any try
FinishList(p, k) ==
    IF Resp(k).status # "ok" THEN Throw(ErrorOf(Resp(k)))
    ELSE IF ~Resp(k).defined THEN Throw("TypeError")
    ELSE LET ns == NormalizedAll(p, Resp(k).rows)
         IN IF AllOk(ns) THEN ReturnList(TicketsOf(ns)) ELSE Throw("TypeError")

----------------------------------------------------------------------------
(* GitHubClient.                                                           *)

\* options.assigneeId ? [options.assigneeId] : undefined
GHAssignees(o) ==
    IF Truthy(GetS(o, "assigneeId")) THEN "assignees" :> <<o["assigneeId"]>> ELSE EmptyFn

\* the parameters of issues.create and issues.update
GHIssuePayload(o) ==
    FieldS("title", GetS(o, "title")) @@ FieldS("body", GetS(o, "description"))
    @@ GHAssignees(o) @@ FieldL("labels", GetL(o, "labels"))

\* state: options?.status || "open", assignee: options?.assigneeId
GHListQuery(o) ==
    ("state" :> OrElse(GetS(o, "status"), s_open))
    @@ FieldS("assignee", GetS(o, "assigneeId"))

GHNormalizeComment(c) ==
    IF ~c.defined THEN [ok |-> FALSE, comment |-> NoComment]
    ELSE [ok |-> TRUE, comment |-> [id |-> numToString(c.num), content |-> c.description]]

GHPullPayload(o) ==
    ("title" :> o["title"]) @@ FieldS("body", GetS(o, "description"))
    @@ ("head" :> o["sourceBranch"]) @@ ("base" :> o["targetBranch"])

GHGetTicket ==
    /\ pc = "idle"
    /\ \E id \in TicketIds :
           Invoke("github", [NoOp EXCEPT !.name = "getTicket", !.ticketId = id],
                  <<ByNum("pulls", "get", parseInt(id), EmptyFn)>>, "gh_get_pull")

GHGetTicketAfterPull ==
    /\ At("gh_get_pull", 1)
    /\ TryNormalizedElse("github", 1,
            ByNum("issues", "get", parseInt(op.ticketId), EmptyFn), "gh_get_issue")

GHGetTicketAfterIssue == At("gh_get_issue", 2) /\ Finish("github", 2)

GHGetTickets ==
    /\ pc = "idle"
    /\ \E o \in Filters :
           Invoke("github", [NoOp EXCEPT !.name = "getTickets", !.options = o],
                  <<List("issues", GHListQuery(o))>>, "gh_list")

GHGetTicketsAfterList == At("gh_list", 1) /\ FinishList("github", 1)

GHCreateTicket ==
    /\ pc = "idle"
    /\ \E o \in TicketOptions :
           Invoke("github", [NoOp EXCEPT !.name = "createTicket", !.options = o],
                  <<Create("issues", GHIssuePayload(o))>>, "gh_create")

GHCreateTicketAfterCreate == At("gh_create", 1) /\ Finish("github", 1)

GHUpdateTicket ==
    /\ pc = "idle"
    /\ \E id \in TicketIds, o \in Updates :
           Invoke("github",
                  [NoOp EXCEPT !.name = "updateTicket", !.ticketId = id, !.options = o],
                  <<ByNum("issues", "patch", parseInt(id), GHIssuePayload(o))>>, "gh_update")

GHUpdateTicketAfterUpdate == At("gh_update", 1) /\ Finish("github", 1)

GHAddComment ==
    /\ pc = "idle"
    /\ \E id \in TicketIds, text \in Comments :
           Invoke("github",
                  [NoOp EXCEPT !.name = "addComment", !.ticketId = id, !.comment = text],
                  <<ByNum("issues", "note", parseInt(id), "note" :> text)>>, "gh_comment")

GHAddCommentAfterCreate ==
    /\ At("gh_comment", 1)
    /\ LET n == GHNormalizeComment(Body(1))
       IN IF Resp(1).status # "ok" THEN Throw(ErrorOf(Resp(1)))
          ELSE IF n.ok THEN ReturnComment(n.comment) ELSE Throw("TypeError")

GHCreateReviewRequest ==
    /\ pc = "idle"
    /\ \E o \in ReviewRequests :
           Invoke("github", [NoOp EXCEPT !.name = "createReviewRequest", !.options = o],
                  <<Create("pulls", GHPullPayload(o))>>, "gh_create_pull")

\* if (options.reviewers?.length) await requestReviewers(data.number, reviewers)
GHCreateReviewRequestAfterCreate ==
    /\ At("gh_create_pull", 1)
    /\ IF Resp(1).status # "ok" THEN Throw(ErrorOf(Resp(1)))
       ELSE IF ~Resp(1).defined THEN Throw("TypeError")
       ELSE IF GetL(op.options, "reviewers") # UndefList /\ Len(op.options["reviewers"]) > 0
       THEN Await(ByNum("pulls", "reviewers", Body(1).num,
                        "reviewers" :> op.options["reviewers"]), "gh_reviewers")
       ELSE ReturnNormalized("github", Body(1))

GHCreateReviewRequestAfterReviewers ==
    /\ At("gh_reviewers", 2)
    /\ IF Resp(2).status # "ok" THEN Throw(ErrorOf(Resp(2)))
       ELSE ReturnNormalized("github", Body(1))

GitHubStep ==
    \/ GHGetTicket \/ GHGetTicketAfterPull \/ GHGetTicketAfterIssue
    \/ GHGetTickets \/ GHGetTicketsAfterList
    \/ GHCreateTicket \/ GHCreateTicketAfterCreate
    \/ GHUpdateTicket \/ GHUpdateTicketAfterUpdate
    \/ GHAddComment \/ GHAddCommentAfterCreate
    \/ GHCreateReviewRequest \/ GHCreateReviewRequestAfterCreate
    \/ GHCreateReviewRequestAfterReviewers

----------------------------------------------------------------------------
(* GitLabClient.                                                           *)

\* options.assigneeId ? [parseInt(options.assigneeId)] : undefined
GLAssigneeIds(o) ==
    IF Truthy(GetS(o, "assigneeId"))
    THEN "assigneeIds" :> <<parseInt(o["assigneeId"])>>
    ELSE EmptyFn

\* options.labels?.join(",")
GLLabels(o) ==
    IF GetL(o, "labels") = UndefList THEN EmptyFn
    ELSE "labels" :> join(o["labels"], s_comma)

\* the edit/create object of Issues.create and Issues.edit
GLIssuePayload(o) ==
    FieldS("title", GetS(o, "title")) @@ FieldS("description", GetS(o, "description"))
    @@ GLAssigneeIds(o) @@ GLLabels(o)

GLListQuery(o) ==
    FieldS("state", GLMapStatus(GetS(o, "status")))
    @@ (IF Truthy(GetS(o, "assigneeId"))
        THEN "assigneeId" :> parseInt(o["assigneeId"]) ELSE EmptyFn)

GLNormalizeComment(c) ==
    IF ~c.defined THEN [ok |-> FALSE, comment |-> NoComment]
    ELSE [ok |-> TRUE, comment |-> [id |-> numToString(c.num), content |-> c.description]]

GLGetTicket ==
    /\ pc = "idle"
    /\ \E id \in TicketIds :
           Invoke("gitlab", [NoOp EXCEPT !.name = "getTicket", !.ticketId = id],
                  <<ByNum("merge_requests", "get", parseInt(id), EmptyFn)>>, "gl_get_mr")

GLGetTicketAfterMR ==
    /\ At("gl_get_mr", 1)
    /\ TryNormalizedElse("gitlab", 1,
            ByNum("issues", "get", parseInt(op.ticketId), EmptyFn), "gl_get_issue")

GLGetTicketAfterIssue == At("gl_get_issue", 2) /\ Finish("gitlab", 2)

GLGetTickets ==
    /\ pc = "idle"
    /\ \E o \in Filters :
           Invoke("gitlab", [NoOp EXCEPT !.name = "getTickets", !.options = o],
                  <<List("issues", GLListQuery(o))>>, "gl_list")

GLGetTicketsAfterList == At("gl_list", 1) /\ FinishList("gitlab", 1)

GLCreateTicket ==
    /\ pc = "idle"
    /\ \E o \in TicketOptions :
           Invoke("gitlab", [NoOp EXCEPT !.name = "createTicket", !.options = o],
                  <<Create("issues", GLIssuePayload(o))>>, "gl_create")

GLCreateTicketAfterCreate == At("gl_create", 1) /\ Finish("gitlab", 1)

GLUpdateTicket ==
    /\ pc = "idle"
    /\ \E id \in TicketIds, o \in Updates :
           Invoke("gitlab",
                  [NoOp EXCEPT !.name = "updateTicket", !.ticketId = id, !.options = o],
                  <<ByNum("issues", "patch", parseInt(id), GLIssuePayload(o))>>, "gl_edit")

GLUpdateTicketAfterEdit == At("gl_edit", 1) /\ Finish("gitlab", 1)

GLAddComment ==
    /\ pc = "idle"
    /\ \E id \in TicketIds, text \in Comments :
           Invoke("gitlab",
                  [NoOp EXCEPT !.name = "addComment", !.ticketId = id, !.comment = text],
                  <<ByNum("merge_requests", "note", parseInt(id), "note" :> text)>>,
                  "gl_note_mr")

GLAddCommentAfterMR ==
    /\ At("gl_note_mr", 1)
    /\ LET n == GLNormalizeComment(Body(1))
       IN IF Resp(1).status = "ok" /\ n.ok THEN ReturnComment(n.comment)
          ELSE Await(ByNum("issues", "note", parseInt(op.ticketId), "note" :> op.comment),
                     "gl_note_issue")

GLAddCommentAfterIssue ==
    /\ At("gl_note_issue", 2)
    /\ LET n == GLNormalizeComment(Body(2))
       IN IF Resp(2).status # "ok" THEN Throw(ErrorOf(Resp(2)))
          ELSE IF n.ok THEN ReturnComment(n.comment) ELSE Throw("TypeError")

\* options.reviewers?.map((r) => parseInt(r))
GLReviewers(o) ==
    IF GetL(o, "reviewers") = UndefList THEN EmptyFn
    ELSE "reviewers" :> [i \in DOMAIN o["reviewers"] |-> parseInt(o["reviewers"][i])]

GLMergeRequestPayload(o) ==
    ("source_branch" :> o["sourceBranch"]) @@ ("target_branch" :> o["targetBranch"])
    @@ ("title" :> o["title"]) @@ FieldS("description", GetS(o, "description"))
    @@ GLReviewers(o) @@ GLLabels(o)

GLCreateReviewRequest ==
    /\ pc = "idle"
    /\ \E o \in ReviewRequests :
           Invoke("gitlab", [NoOp EXCEPT !.name = "createReviewRequest", !.options = o],
                  <<Create("merge_requests", GLMergeRequestPayload(o))>>, "gl_create_mr")

GLCreateReviewRequestAfterCreate == At("gl_create_mr", 1) /\ Finish("gitlab", 1)

GitLabStep ==
    \/ GLGetTicket \/ GLGetTicketAfterMR \/ GLGetTicketAfterIssue
    \/ GLGetTickets \/ GLGetTicketsAfterList
    \/ GLCreateTicket \/ GLCreateTicketAfterCreate
    \/ GLUpdateTicket \/ GLUpdateTicketAfterEdit
    \/ GLAddComment \/ GLAddCommentAfterMR \/ GLAddCommentAfterIssue
    \/ GLCreateReviewRequest \/ GLCreateReviewRequestAfterCreate

----------------------------------------------------------------------------
(* The description createReviewRequest stores on Jira and ServiceNow.      *)

\* options.reviewers?.join(", ") || "None assigned"
ReviewersLine(o) ==
    IF GetL(o, "reviewers") = UndefList THEN s_NoneAssigned
    ELSE OrElse(join(o["reviewers"], s_commaSpace), s_NoneAssigned)

\* the template literal, trimmed
ReviewDescription(o) ==
    trim(s_lineBreak \o GetS(o, "description") \o s_lineBreak \o s_lineBreak
         \o s_SourceBranchLabel \o o["sourceBranch"] \o s_lineBreak
         \o s_TargetBranchLabel \o o["targetBranch"] \o s_lineBreak
         \o s_ReviewersLabel \o ReviewersLine(o) \o s_templateTail)

\* options.reviewers?.length
HasReviewers(o) == GetL(o, "reviewers") # UndefList /\ Len(o["reviewers"]) > 0

\* list?.[0]
FirstOf(list) == IF list = UndefList \/ Len(list) = 0 THEN UndefStr ELSE list[1]

----------------------------------------------------------------------------
(* JiraClient.                                                             *)

projectKey == s_PROJ

\* the JQL text of getTickets
JiraJql(o) ==
    s_projectEq \o projectKey
    \o (IF Truthy(GetS(o, "status")) THEN s_andStatusEq \o o["status"] \o s_quote ELSE <<>>)
    \o (IF Truthy(GetS(o, "assigneeId"))
        THEN s_andAssigneeEq \o o["assigneeId"] \o s_quote ELSE <<>>)

\* fields of createIssue in createTicket
JiraCreateFields(o) ==
    ("summary" :> o["title"]) @@ FieldS("description", GetS(o, "description"))
    @@ ("issuetype" :> s_Task)
    @@ (IF Truthy(GetS(o, "assigneeId")) THEN "assignee" :> o["assigneeId"] ELSE EmptyFn)
    @@ FieldL("labels", GetL(o, "labels"))

\* updateFields of updateTicket: each `if (updates.x)` is a truthiness test;
\* an array is truthy whatever its length
JiraUpdateFields(o) ==
    (IF Truthy(GetS(o, "title")) THEN "summary" :> o["title"] ELSE EmptyFn)
    @@ (IF Truthy(GetS(o, "description")) THEN "description" :> o["description"] ELSE EmptyFn)
    @@ (IF Truthy(GetS(o, "assigneeId")) THEN "assignee" :> o["assigneeId"] ELSE EmptyFn)
    @@ (IF GetL(o, "labels") # UndefList THEN "labels" :> o["labels"] ELSE EmptyFn)

\* fields of createIssue in createReviewRequest
JiraReviewFields(o) ==
    ("summary" :> o["title"]) @@ ("description" :> ReviewDescription(o))
    @@ ("issuetype" :> s_Review)
    @@ ("labels" :> (IF GetL(o, "labels") = UndefList THEN <<>> ELSE o["labels"])
                        \o <<s_code_review>>)

JiraNormalizeComment(c) ==
    IF ~c.defined THEN [ok |-> FALSE, comment |-> NoComment]
    ELSE [ok |-> TRUE, comment |-> [id |-> c.key, content |-> c.description]]

\* { ...createdIssue, type: "pullRequest", sourceBranch, targetBranch, state: "open" }
JiraReviewResult(createdIssue, o) ==
    PullRequestOf(createdIssue, o["sourceBranch"], o["targetBranch"], s_open)

JiraFetch(key) == ByKey("issue", "get", key, EmptyFn)

JiraGetTicket ==
    /\ pc = "idle"
    /\ \E id \in TicketIds :
           Invoke("jira", [NoOp EXCEPT !.name = "getTicket", !.ticketId = id],
                  <<JiraFetch(id)>>, "jira_get")

JiraGetTicketAfterGet == At("jira_get", 1) /\ Finish("jira", 1)

JiraGetTickets ==
    /\ pc = "idle"
    /\ \E o \in Filters :
           Invoke("jira", [NoOp EXCEPT !.name = "getTickets", !.options = o],
                  <<List("issue", "jql" :> JiraJql(o))>>, "jira_search")

\* response.issues.map(...)
JiraGetTicketsAfterSearch == At("jira_search", 1) /\ FinishList("jira", 1)

JiraCreateTicket ==
    /\ pc = "idle"
    /\ \E o \in TicketOptions :
           Invoke("jira", [NoOp EXCEPT !.name = "createTicket", !.options = o],
                  <<Create("issue", JiraCreateFields(o))>>, "jira_create")

\* return this.getTicket(issue.key)
JiraCreateTicketAfterCreate ==
    /\ At("jira_create", 1)
    /\ IF Resp(1).status # "ok" THEN Throw(ErrorOf(Resp(1)))
       ELSE IF ~Resp(1).defined THEN Throw("TypeError")
       ELSE Await(JiraFetch(Body(1).key), "jira_create_get")

JiraCreateTicketAfterGet == At("jira_create_get", 2) /\ Finish("jira", 2)

JiraUpdateTicket ==
    /\ pc = "idle"
    /\ \E id \in TicketIds, o \in Updates :
           Invoke("jira",
                  [NoOp EXCEPT !.name = "updateTicket", !.ticketId = id, !.options = o],
                  <<ByKey("issue", "patch", id, JiraUpdateFields(o))>>, "jira_edit")

\* return this.getTicket(ticketId)
JiraUpdateTicketAfterEdit ==
    /\ At("jira_edit", 1)
    /\ IF Resp(1).status # "ok" THEN Throw(ErrorOf(Resp(1)))
       ELSE Await(JiraFetch(op.ticketId), "jira_edit_get")

JiraUpdateTicketAfterGet == At("jira_edit_get", 2) /\ Finish("jira", 2)

JiraAddComment ==
    /\ pc = "idle"
    /\ \E id \in TicketIds, text \in Comments :
           Invoke("jira",
                  [NoOp EXCEPT !.name = "addComment", !.ticketId = id, !.comment = text],
                  <<ByKey("issue", "note", id, "note" :> text)>>, "jira_comment")

JiraAddCommentAfterAdd ==
    /\ At("jira_comment", 1)
    /\ LET n == JiraNormalizeComment(Body(1))
       IN IF Resp(1).status # "ok" THEN Throw(ErrorOf(Resp(1)))
          ELSE IF n.ok THEN ReturnComment(n.comment) ELSE Throw("TypeError")

JiraCreateReviewRequest ==
    /\ pc = "idle"
    /\ \E o \in ReviewRequests :
           Invoke("jira", [NoOp EXCEPT !.name = "createReviewRequest", !.options = o],
                  <<Create("issue", JiraReviewFields(o))>>, "jira_rr_create")

\* if (options.reviewers?.length) await addWatcher(issue.key, reviewers[0])
JiraCreateReviewRequestAfterCreate ==
    /\ At("jira_rr_create", 1)
    /\ IF Resp(1).status # "ok" THEN Throw(ErrorOf(Resp(1)))
       ELSE IF ~Resp(1).defined THEN Throw("TypeError")
       ELSE IF HasReviewers(op.options)
       THEN Await(ByKey("issue", "watch", Body(1).key,
                        "watcher" :> op.options["reviewers"][1]), "jira_rr_watch")
       ELSE Await(JiraFetch(Body(1).key), "jira_rr_get")

\* the step after addWatcher with its rejection swallowed
JiraCreateReviewRequestAfterWatchLenient ==
    /\ At("jira_rr_watch", 2)
    /\ Await(JiraFetch(Body(1).key), "jira_rr_get")

JiraCreateReviewRequestAfterWatch ==
    /\ At("jira_rr_watch", 2)
    /\ IF Resp(2).status # "ok" THEN Throw(ErrorOf(Resp(2)))
       ELSE Await(JiraFetch(Body(1).key), "jira_rr_get")

JiraCreateReviewRequestAfterGet ==
    /\ At("jira_rr_get", Len(calls))
    /\ LET k == Len(calls)
           n == JiraNormalizeTicket(Body(k))
       IN IF Resp(k).status # "ok" THEN Throw(ErrorOf(Resp(k)))
          ELSE IF n.ok THEN ReturnTicket(JiraReviewResult(n.ticket, op.options))
          ELSE Throw("TypeError")

JiraStep ==
    \/ JiraGetTicket \/ JiraGetTicketAfterGet
    \/ JiraGetTickets \/ JiraGetTicketsAfterSearch
    \/ JiraCreateTicket \/ JiraCreateTicketAfterCreate \/ JiraCreateTicketAfterGet
    \/ JiraUpdateTicket \/ JiraUpdateTicketAfterEdit \/ JiraUpdateTicketAfterGet
    \/ JiraAddComment \/ JiraAddCommentAfterAdd
    \/ JiraCreateReviewRequest \/ JiraCreateReviewRequestAfterCreate
    \/ JiraCreateReviewRequestAfterWatch \/ JiraCreateReviewRequestAfterGet

----------------------------------------------------------------------------
(* ServiceNowClient.                                                       *)

\* the query string of getTickets: terms joined by ^, the last ^ sliced off
SNQuery(o) ==
    LET query == (IF Truthy(GetS(o, "status"))
                  THEN s_stateEq \o SNMapStatusToServiceNow(o["status"]) \o s_caret
                  ELSE <<>>)
                 \o (IF Truthy(GetS(o, "assigneeId"))
                     THEN s_assignedToEq \o o["assigneeId"] \o s_caret
                     ELSE <<>>)
    IN IF Len(query) > 0 THEN s_sysparmQuery \o SubSeq(query, 1, Len(query) - 1) ELSE query

\* payload of createTicket
SNCreatePayload(o) ==
    ("short_description" :> o["title"]) @@ FieldS("description", GetS(o, "description"))
    @@ FieldS("assigned_to", GetS(o, "assigneeId"))
    @@ FieldS("category", FirstOf(GetL(o, "labels")))

\* payload of updateTicket
SNUpdatePayload(o) ==
    (IF Truthy(GetS(o, "title")) THEN "short_description" :> o["title"] ELSE EmptyFn)
    @@ (IF Truthy(GetS(o, "description")) THEN "description" :> o["description"] ELSE EmptyFn)
    @@ (IF Truthy(GetS(o, "assigneeId")) THEN "assigned_to" :> o["assigneeId"] ELSE EmptyFn)
    @@ (IF GetL(o, "labels") # UndefList /\ Len(o["labels"]) > 0
        THEN "category" :> o["labels"][1] ELSE EmptyFn)

\* options.reviewers?.slice(1).join(",")
SNWatchList(o) ==
    IF GetL(o, "reviewers") = UndefList THEN UndefStr
    ELSE join(SubSeq(o["reviewers"], 2, Len(o["reviewers"])), s_comma)

\* payload of createReviewRequest
SNReviewPayload(o) ==
    ("short_description" :> o["title"]) @@ ("description" :> ReviewDescription(o))
    @@ ("type" :> s_normal) @@ ("category" :> s_CodeReview)
    @@ FieldS("assigned_to", FirstOf(GetL(o, "reviewers")))
    @@ FieldS("watch_list", SNWatchList(o))

SNNormalizeComment(c) ==
    IF ~c.defined THEN [ok |-> FALSE, comment |-> NoComment]
    ELSE [ok |-> TRUE, comment |-> [id |-> c.key, content |-> OrElse(c.work_notes, <<>>)]]

\* the object createReviewRequest returns, built from the created record
SNReviewResult(createdChange, o) ==
    PullRequestOf([NoTicket EXCEPT
                      !.id = createdChange.key,
                      !.title = createdChange.title,
                      !.description = createdChange.description,
                      !.status = SNNormalizeStatus(createdChange.state),
                      !.assignee = AssigneeOf(createdChange)],
                  o["sourceBranch"], o["targetBranch"],
                  SNMapServiceNowStateToPRState(createdChange.state))

\* the join with the two spreads exchanged
SNJoinSwapped(incidents, changes) == changes \o incidents

\* [...incidents.map(normalize), ...changes.map(normalize)]
SNJoin(incidents, changes) == incidents \o changes

SNGetTicket ==
    /\ pc = "idle"
    /\ \E id \in TicketIds :
           Invoke("servicenow", [NoOp EXCEPT !.name = "getTicket", !.ticketId = id],
                  <<ByKey(TABLE_CHANGE_REQUEST, "get", id, EmptyFn)>>, "sn_get_change")

SNGetTicketAfterChange ==
    /\ At("sn_get_change", 1)
    /\ TryNormalizedElse("servicenow", 1,
            ByKey(TABLE_INCIDENT, "get", op.ticketId, EmptyFn), "sn_get_incident")

SNGetTicketAfterIncident == At("sn_get_incident", 2) /\ Finish("servicenow", 2)

\* Promise.all([get(incident), get(change_request)]): both calls are issued
\* before the handler suspends
SNGetTickets ==
    /\ pc = "idle"
    /\ \E o \in Filters :
           Invoke("servicenow", [NoOp EXCEPT !.name = "getTickets", !.options = o],
                  <<List(TABLE_INCIDENT, "url" :> SNQuery(o)),
                    List(TABLE_CHANGE_REQUEST, "url" :> SNQuery(o))>>, "sn_list")

\* Promise.all rejects as soon as one of the two calls is rejected
SNGetTicketsRejected ==
    /\ pc = "sn_list"
    /\ \E k \in {1, 2} :
        /\ Resp(k).status \notin {"pending", "ok"}
        /\ \A j \in {1, 2} : Resp(j).status \notin {"pending", "ok"} => Resp(k).at <= Resp(j).at
        /\ Throw(ErrorOf(Resp(k)))

\* Promise.all resolves once both calls are fulfilled
SNGetTicketsJoin ==
    /\ pc = "sn_list"
    /\ Resp(1).status = "ok" /\ Resp(2).status = "ok"
    /\ IF ~Resp(1).defined \/ ~Resp(2).defined THEN Throw("TypeError")
       ELSE LET incidents == NormalizedAll("servicenow", Resp(1).rows)
                changes == NormalizedAll("servicenow", Resp(2).rows)
            IN IF AllOk(incidents) /\ AllOk(changes)
               THEN ReturnList(SNJoin(TicketsOf(incidents), TicketsOf(changes)))
               ELSE Throw("TypeError")

SNCreateTicket ==
    /\ pc = "idle"
    /\ \E o \in TicketOptions :
           Invoke("servicenow", [NoOp EXCEPT !.name = "createTicket", !.options = o],
                  <<Create(TABLE_INCIDENT, SNCreatePayload(o))>>, "sn_create")

SNCreateTicketAfterPost == At("sn_create", 1) /\ Finish("servicenow", 1)

SNUpdateTicket ==
    /\ pc = "idle"
    /\ \E id \in TicketIds, o \in Updates :
           Invoke("servicenow",
                  [NoOp EXCEPT !.name = "updateTicket", !.ticketId = id, !.options = o],
                  <<ByKey(TABLE_CHANGE_REQUEST, "patch", id, SNUpdatePayload(o))>>,
                  "sn_patch_change")

SNUpdateTicketAfterChange ==
    /\ At("sn_patch_change", 1)
    /\ TryNormalizedElse("servicenow", 1,
            ByKey(TABLE_INCIDENT, "patch", op.ticketId, SNUpdatePayload(op.options)),
            "sn_patch_incident")

SNUpdateTicketAfterIncident == At("sn_patch_incident", 2) /\ Finish("servicenow", 2)

SNAddComment ==
    /\ pc = "idle"
    /\ \E id \in TicketIds, text \in Comments :
           Invoke("servicenow",
                  [NoOp EXCEPT !.name = "addComment", !.ticketId = id, !.comment = text],
                  <<ByKey(TABLE_CHANGE_REQUEST, "patch", id, "work_notes" :> text)>>,
                  "sn_note_change")

SNAddCommentAfterChange ==
    /\ At("sn_note_change", 1)
    /\ LET n == SNNormalizeComment(Body(1))
       IN IF Resp(1).status = "ok" /\ n.ok THEN ReturnComment(n.comment)
          ELSE Await(ByKey(TABLE_INCIDENT, "patch", op.ticketId, "work_notes" :> op.comment),
                     "sn_note_incident")

SNAddCommentAfterIncident ==
    /\ At("sn_note_incident", 2)
    /\ LET n == SNNormalizeComment(Body(2))
       IN IF Resp(2).status # "ok" THEN Throw(ErrorOf(Resp(2)))
          ELSE IF n.ok THEN ReturnComment(n.comment) ELSE Throw("TypeError")

SNCreateReviewRequest ==
    /\ pc = "idle"
    /\ \E o \in ReviewRequests :
           Invoke("servicenow", [NoOp EXCEPT !.name = "createReviewRequest", !.options = o],
                  <<Create(TABLE_CHANGE_REQUEST, SNReviewPayload(o))>>, "sn_rr_create")

SNCreateReviewRequestAfterPost ==
    /\ At("sn_rr_create", 1)
    /\ IF Resp(1).status # "ok" THEN Throw(ErrorOf(Resp(1)))
       ELSE IF ~Resp(1).defined THEN Throw("TypeError")
       ELSE ReturnTicket(SNReviewResult(Body(1), op.options))

ServiceNowStep ==
    \/ SNGetTicket \/ SNGetTicketAfterChange \/ SNGetTicketAfterIncident
    \/ SNGetTickets \/ SNGetTicketsRejected \/ SNGetTicketsJoin
    \/ SNCreateTicket \/ SNCreateTicketAfterPost
    \/ SNUpdateTicket \/ SNUpdateTicketAfterChange \/ SNUpdateTicketAfterIncident
    \/ SNAddComment \/ SNAddCommentAfterChange \/ SNAddCommentAfterIncident
    \/ SNCreateReviewRequest \/ SNCreateReviewRequestAfterPost

----------------------------------------------------------------------------
(* The specification.                                                      *)

Init ==
    /\ config \in Configs
    /\ client = NoClient
    /\ remote = [cell \in Resources \X Ids |-> AbsentRow]
    /\ seen = {}
    /\ op = NoOp
    /\ pc = "idle"
    /\ calls = <<>>
    /\ result = NoResult
    /\ created = NoTicket

\* TicketClientFactory.createClient(config)
CreateClient ==
    /\ client.kind = "none"
    /\ client' = createClient(config)
    /\ UNCHANGED <<config, remote, seen, op, pc, calls, result, created>>

\* the number of calls the platform has answered
Settled == Cardinality({k \in DOMAIN calls : calls[k].resp.status # "pending"})

\* the platform answers one of the calls in flight; `at` numbers the answers
RemoteResponds ==
    \E k \in DOMAIN calls :
        /\ calls[k].resp.status = "pending"
        /\ \E o \in Outcomes(client.platform, calls[k]) :
            /\ calls' = [calls EXCEPT ![k].resp = [o.resp EXCEPT !.at = Settled + 1]]
            /\ remote' = o.remote
            /\ seen' = o.seen
        /\ UNCHANGED <<config, client, op, pc, result, created>>

Next ==
    \/ CreateClient
    \/ RemoteResponds
    \/ GitHubStep
    \/ GitLabStep
    \/ JiraStep
    \/ ServiceNowStep

Spec == Init /\ [][Next]_vars

----------------------------------------------------------------------------
(* createReviewRequest followed by getTicket of the ticket it returned.    *)

\* const t = await client.createReviewRequest(o): the caller keeps the ticket
KeepCreated ==
    /\ pc = "done" /\ op.name = "createReviewRequest" /\ result.status = "returned"
    /\ created = NoTicket
    /\ created' = result.ticket
    /\ op' = NoOp
    /\ pc' = "idle"
    /\ calls' = <<>>
    /\ result' = NoResult
    /\ UNCHANGED <<config, client, remote, seen>>

RequestReview ==
    /\ created = NoTicket
    /\ \/ GHCreateReviewRequest \/ GLCreateReviewRequest
       \/ JiraCreateReviewRequest \/ SNCreateReviewRequest

\* await client.getTicket(t.id)
ReadCreated ==
    /\ created # NoTicket
    /\ \/ GHGetTicket \/ GLGetTicket \/ JiraGetTicket \/ SNGetTicket

CreateThenReadNext ==
    \/ CreateClient
    \/ RemoteResponds
    \/ RequestReview
    \/ GHCreateReviewRequestAfterCreate \/ GHCreateReviewRequestAfterReviewers
    \/ GLCreateReviewRequestAfterCreate
    \/ JiraCreateReviewRequestAfterCreate \/ JiraCreateReviewRequestAfterWatch
    \/ JiraCreateReviewRequestAfterGet
    \/ SNCreateReviewRequestAfterPost
    \/ KeepCreated
    \/ ReadCreated
    \/ GHGetTicketAfterPull \/ GHGetTicketAfterIssue
    \/ GLGetTicketAfterMR \/ GLGetTicketAfterIssue
    \/ JiraGetTicketAfterGet
    \/ SNGetTicketAfterChange \/ SNGetTicketAfterIncident

CreateThenRead == Init /\ [][CreateThenReadNext]_vars

----------------------------------------------------------------------------
(* Properties.                                                             *)

Platform == client.platform
Probing == Platform \in {"gitlab", "servicenow"}
InFlight == {k \in DOMAIN calls : calls[k].resp.status = "pending"}
Rejected(k) == calls[k].resp.status \in {"notfound", "error"}
TargetId == TargetOf([key |-> op.ticketId, num |-> NaN])
ExistsIn(res) == TargetId \in Ids /\ remote[<<res, TargetId>>].exists

\* every ticket the operation handed to the caller
ReturnedTickets ==
    IF result.status # "returned" THEN {}
    ELSE {result.list[i] : i \in DOMAIN result.list}
         \cup (IF result.ticket.type = "none" THEN {} ELSE {result.ticket})

\* C1: on GitLab and ServiceNow getTicket calls the merge request / change_request
\* resource first and the issue / incident resource only after that first call
\* failed; for an id in neither resource the caller gets the failure after exactly
\* two failed calls.
C1_ProbeOrder ==
    (Probing /\ op.name = "getTicket") =>
        /\ Len(calls) >= 1 => calls[1].res = ReviewResource(Platform)
        /\ Len(calls) >= 2 =>
            /\ calls[2].res = GeneralResource(Platform)
            /\ Rejected(1)
        /\ (result.status = "thrown" /\ ~ExistsIn(ReviewResource(Platform))
                /\ ~ExistsIn(GeneralResource(Platform))) =>
            /\ Len(calls) = 2
            /\ Rejected(1) /\ Rejected(2)

\* C2: in every probing operation of GitLab and ServiceNow the second resource is
\* called only when the first call ended with a remote not-found; any other failure
\* reaches the caller unchanged and the second resource is not called.
C2_FallbackOnlyOnNotFound ==
    (Probing /\ op.name \in {"getTicket", "updateTicket", "addComment"}) =>
        /\ Len(calls) >= 2 => calls[1].resp.status = "notfound"
        /\ (pc = "done" /\ calls[1].resp.status = "error") =>
            /\ Len(calls) = 1
            /\ result.status = "thrown" /\ result.error = "TransportFailure"

\* C3: on GitLab and ServiceNow updateTicket and addComment write to the merge
\* request / change_request resource first and to the issue / incident resource on
\* failure, so an id that names only a merge request or change request is updated.
C3_WritesProbeReviewFirst ==
    (Probing /\ op.name \in {"updateTicket", "addComment"}) =>
        /\ Len(calls) >= 1 => calls[1].res = ReviewResource(Platform)
        /\ Len(calls) >= 2 => calls[2].res = GeneralResource(Platform)

PRStates == {s_open, s_closed, s_merged}
SharedStatuses ==
    {s_open, s_closed, s_merged, s_new, s_in_progress, s_on_hold, s_resolved, s_pending}

\* C4: every pull-request ticket any adapter returns has state open, closed or
\* merged and a status of the shared vocabulary, never the raw platform value.
C4_NoRawStateLeaks ==
    \A t \in ReturnedTickets :
        t.type = "pullRequest" => t.state \in PRStates /\ t.status \in SharedStatuses

\* C5: on Jira and ServiceNow the description createReviewRequest sends holds the
\* two label lines, and normalizing the record that stores it gives back the
\* sourceBranch and targetBranch the caller supplied.
C5_BranchRoundTrip ==
    (Platform \in {"jira", "servicenow"} /\ op.name = "createReviewRequest"
        /\ Len(calls) >= 1 /\ calls[1].resp.status = "ok") =>
        LET sent == calls[1].payload["description"]
            stored == remote[<<calls[1].res, NewId>>]
            read == normalizeTicket(Platform, stored)
        IN /\ includes(sent, s_SourceBranchLabel \o op.options["sourceBranch"])
           /\ includes(sent, s_TargetBranchLabel \o op.options["targetBranch"])
           /\ stored.description = sent
           /\ read.ok /\ read.ticket.type = "pullRequest"
           /\ read.ticket.sourceBranch = op.options["sourceBranch"]
           /\ read.ticket.targetBranch = op.options["targetBranch"]

\* the list query of call k carries a status filter term
HasStatusTerm(k) ==
    CASE Platform \in {"github", "gitlab"} -> "state" \in DOMAIN calls[k].query
      [] Platform = "jira" -> includes(calls[k].query["jql"], s_andStatusEq)
      [] Platform = "servicenow" -> includes(calls[k].query["url"], s_stateEq)

\* C6: on every adapter getTickets with a status outside the shared vocabulary
\* ("bogus") does not throw for it and sends the list query with no status term.
C6_UnknownStatusOmitted ==
    (op.name = "getTickets" /\ GetS(op.options, "status") = s_bogus) =>
        \A k \in DOMAIN calls : ~HasStatusTerm(k)

\* C7: ServiceNow getTickets has the incident query and the change_request query in
\* flight together, returns the normalized incidents in the order returned followed
\* by the normalized change requests in the order returned, whichever query
\* completed first; no other operation has two calls in flight.
C7_ConcurrentListJoin ==
    /\ Cardinality(InFlight) >= 2 => Platform = "servicenow" /\ op.name = "getTickets"
    /\ (Platform = "servicenow" /\ op.name = "getTickets") =>
        /\ Len(calls) = 2
        /\ calls[1].res = TABLE_INCIDENT /\ calls[2].res = TABLE_CHANGE_REQUEST
        /\ result.status = "returned" =>
            LET inc == calls[1].resp.rows
                chg == calls[2].resp.rows
            IN /\ Len(result.list) = Len(inc) + Len(chg)
               /\ \A i \in DOMAIN inc : result.list[i] = SNNormalizeTicket(inc[i]).ticket
               /\ \A i \in DOMAIN chg :
                    result.list[Len(inc) + i] = SNNormalizeTicket(chg[i]).ticket

\* C7 witness: the change_request query completed first, both queries returned
\* rows, and the joined list was returned.
C7_Witness ==
    /\ Platform = "servicenow" /\ op.name = "getTickets"
    /\ result.status = "returned"
    /\ calls[2].resp.at = 1 /\ calls[1].resp.at = 2
    /\ Len(calls[1].resp.rows) = 2 /\ Len(calls[2].resp.rows) >= 1
    /\ calls[1].resp.rows[1].num > calls[1].resp.rows[2].num

\* the payload property that carries each field of a partial update
PayloadKey(p, f) ==
    CASE p = "github" ->
            [title |-> "title", description |-> "body", assigneeId |-> "assignees",
             labels |-> "labels"][f]
      [] p = "gitlab" ->
            [title |-> "title", description |-> "description",
             assigneeId |-> "assigneeIds", labels |-> "labels"][f]
      [] p = "jira" ->
            [title |-> "summary", description |-> "description",
             assigneeId |-> "assignee", labels |-> "labels"][f]
      [] p = "servicenow" ->
            [title |-> "short_description", description |-> "description",
             assigneeId |-> "assigned_to", labels |-> "category"][f]

\* C8: the payload updateTicket sends holds a field exactly when the partial update
\* holds it, with the supplied value, the empty string and the empty list included.
C8_UpdateSendsExactlySupplied ==
    (op.name = "updateTicket" /\ Len(calls) >= 1) =>
        \A f \in {"title", "description", "assigneeId", "labels"} :
            /\ f \in DOMAIN op.options <=> PayloadKey(Platform, f) \in DOMAIN calls[1].payload
            /\ (f \in {"title", "description"} /\ f \in DOMAIN op.options
                    /\ PayloadKey(Platform, f) \in DOMAIN calls[1].payload) =>
                calls[1].payload[PayloadKey(Platform, f)] = op.options[f]

\* C9: createClient fails with an invalid-configuration error and builds no adapter
\* when the declared type lacks a required field or the tag is unknown (the error
\* then names the tag); for a complete configuration it returns the adapter of the
\* declared type.
C9_FactoryValidates ==
    client.kind # "none" =>
        IF config.type \in Platforms /\ RequiredFields(config.type) \subseteq config.fields
        THEN client = Adapter(config.type)
        ELSE /\ client.kind = "error"
             /\ client.error.name = "Error"
             /\ config.type \notin Platforms => client.error.tag = config.type

\* the documented forward mapping of ServiceNow states
DocumentedStatus(s) ==
    CASE s = s_1 -> s_new
      [] s = s_2 -> s_in_progress
      [] s = s_3 -> s_on_hold
      [] s = s_6 -> s_resolved
      [] s = s_7 -> s_closed
      [] s = s_m5 -> s_pending
      [] OTHER -> s

\* C10: the ServiceNow forward status mapping sends "1", "2", "3", "6", "7", "-5" to
\* new, in_progress, on_hold, resolved, closed, pending and every other string to
\* itself.
C10_ForwardMappingTotal ==
    (Platform = "servicenow" /\ op.name = "getTicket" /\ result.status = "returned") =>
        result.ticket.status = DocumentedStatus(Body(Len(calls)).state)


\* the operations that make more than one remote call in sequence
MultiCall ==
    \/ Platform = "jira" /\ op.name \in {"createTicket", "createReviewRequest", "updateTicket"}
    \/ Platform = "github" /\ op.name = "createReviewRequest"

\* C11: in Jira createTicket, createReviewRequest, updateTicket and GitHub
\* createReviewRequest a step is issued only after the previous step succeeded, the
\* caller receives the error of the first failing step, nothing is issued after a
\* failure, no delete is ever issued, and a record a step created stays created.
C11_SequentialNoRollback ==
    MultiCall =>
        /\ Cardinality(InFlight) <= 1
        /\ \A k \in DOMAIN calls :
            /\ k > 1 => calls[k - 1].resp.status = "ok"
            /\ calls[k].verb \in {"create", "get", "patch", "watch", "reviewers"}
            /\ Rejected(k) =>
                /\ k = Len(calls)
                /\ pc = "done" =>
                    /\ result.status = "thrown"
                    /\ result.error = IF calls[k].resp.status = "notfound"
                                      THEN "NotFound" ELSE "TransportFailure"
        /\ (Len(calls) >= 1 /\ calls[1].verb = "create" /\ calls[1].resp.status = "ok") =>
            remote[<<calls[1].res, NewId>>].exists

\* C11 witness: Jira createReviewRequest created the record, the watcher call
\* failed, the caller got that failure and the record is still there.
C11_Witness ==
    /\ Platform = "jira" /\ op.name = "createReviewRequest"
    /\ pc = "done" /\ result.status = "thrown"
    /\ Len(calls) = 2
    /\ calls[1].resp.status = "ok" /\ calls[2].verb = "watch" /\ Rejected(2)
    /\ remote[<<"issue", NewId>>].exists

\* the reviewers of the review request being created (empty when none given)
Reviewers == IF GetL(op.options, "reviewers") = UndefList THEN <<>> ELSE op.options["reviewers"]

\* C12: createReviewRequest with a non-empty reviewers list conveys every reviewer:
\* on ServiceNow and Jira the first reviewer becomes the assignee and the others
\* become watchers (the first is not added as a watcher); on GitHub and GitLab the
\* whole list is sent as reviewers.
C12_AllReviewersConveyed ==
    (op.name = "createReviewRequest" /\ result.status = "returned" /\ Len(Reviewers) > 0) =>
        CASE Platform = "servicenow" ->
                /\ GetS(calls[1].payload, "assigned_to") = Reviewers[1]
                /\ GetS(calls[1].payload, "watch_list") = join(Tail(Reviewers), s_comma)
          [] Platform = "jira" ->
                /\ GetS(calls[1].payload, "assignee") = Reviewers[1]
                /\ \A i \in 2..Len(Reviewers) :
                    \E k \in DOMAIN calls :
                        calls[k].verb = "watch" /\ calls[k].payload["watcher"] = Reviewers[i]
                /\ ~\E k \in DOMAIN calls :
                        calls[k].verb = "watch" /\ calls[k].payload["watcher"] = Reviewers[1]
          [] Platform = "github" ->
                \E k \in DOMAIN calls :
                    calls[k].verb = "reviewers" /\ calls[k].payload["reviewers"] = Reviewers
          [] Platform = "gitlab" ->
                /\ "reviewers" \in DOMAIN calls[1].payload
                /\ Len(calls[1].payload["reviewers"]) = Len(Reviewers)

\* C13: on GitLab the ticket getTicket returns is a pull request exactly when the
\* merge request endpoint answered and an issue exactly when the issue endpoint
\* answered, whatever the payload holds.
C13_VariantByEndpoint ==
    (Platform = "gitlab" /\ op.name = "getTicket" /\ result.status = "returned") =>
        result.ticket.type =
            IF calls[Len(calls)].res = "merge_requests" THEN "pullRequest" ELSE "issue"

\* the sentinel that marks a raw record as a review request
Sentinel(p, r) ==
    CASE p = "servicenow" -> r.cls = "change_request" /\ r.category = s_CodeReview
      [] p = "jira" -> r.issuetype = s_Review

\* the raw records behind a returned list, in the order of the list
ListedRows ==
    IF Platform = "servicenow" THEN calls[1].resp.rows \o calls[2].resp.rows
    ELSE calls[1].resp.rows

VariantOf(p, r) == IF Sentinel(p, r) THEN "pullRequest" ELSE "issue"

\* C14: a ticket ServiceNow returns from getTicket, getTickets, createTicket or
\* updateTicket is a pull request exactly when the raw record is a change_request
\* of category "Code Review", and a ticket Jira returns is a pull request exactly
\* when the record's issue type is "Review"; every other record is an issue.
C14_SentinelClassification ==
    (Platform \in {"servicenow", "jira"} /\ result.status = "returned") =>
        /\ op.name \in {"getTicket", "createTicket", "updateTicket"} =>
            result.ticket.type = VariantOf(Platform, Body(Len(calls)))
        /\ op.name = "getTickets" =>
            /\ Len(result.list) = Len(ListedRows)
            /\ \A i \in DOMAIN result.list :
                result.list[i].type = VariantOf(Platform, ListedRows[i])

\* C14 witness: ServiceNow getTicket returned an incident of category "Code Review"
\* as an issue.
C14_Witness ==
    /\ Platform = "servicenow" /\ op.name = "getTicket" /\ result.status = "returned"
    /\ Body(Len(calls)).cls = "incident" /\ Body(Len(calls)).category = s_CodeReview
    /\ result.ticket.type = "issue"

\* word w occurs in string s
Contains(s, w) ==
    \E i \in 1..(Len(s) - Len(w) + 1) : SubSeq(s, i, i + Len(w) - 1) = w

\* the pull-request state a Jira status name stands for
DerivedState(name) ==
    LET low == toLowerCase(name)
    IN IF Contains(low, s_done) \/ Contains(low, s_merged) THEN s_merged
       ELSE IF Contains(low, s_closed) \/ Contains(low, s_rejected) THEN s_closed
       ELSE s_open

\* C15: the state of a pull request Jira reads is merged when the lower-cased
\* status name contains "done" or "merged", otherwise closed when it contains
\* "closed" or "rejected", otherwise open; the merged test comes first.
C15_JiraStateDerivation ==
    (Platform = "jira" /\ result.status = "returned") =>
        /\ (op.name \in {"getTicket", "createTicket", "updateTicket"}
                /\ result.ticket.type = "pullRequest") =>
            result.ticket.state = DerivedState(Body(Len(calls)).state)
        /\ op.name = "getTickets" =>
            \A i \in DOMAIN result.list :
                result.list[i].type = "pullRequest" =>
                    result.list[i].state = DerivedState(ListedRows[i].state)

\* C15 witness: Jira getTicket read a review whose status names both a closed and
\* a merged keyword and returned it as merged.
C15_Witness ==
    /\ Platform = "jira" /\ op.name = "getTicket" /\ result.status = "returned"
    /\ Body(Len(calls)).state = s_ClosedMerged
    /\ result.ticket.type = "pullRequest" /\ result.ticket.state = s_merged

\* the positions where a line of s starts
LineStarts(s) == {1} \cup {i + 1 : i \in {j \in DOMAIN s : s[j] = "\n"}}

\* the value of the first line of the description that is exactly label + value,
\* "unknown" when there is none
AnchoredBranch(description, label) ==
    LET s == OrElse(description, <<>>)
        n == Len(label)
        hits == {i \in LineStarts(s) :
                    /\ i + n - 1 <= Len(s)
                    /\ SubSeq(s, i, i + n - 1) = label
                    /\ LineRest(s, i + n) # <<>>}
    IN IF hits = {} THEN s_unknown ELSE LineRest(s, Min(hits) + n)

BranchesAnchored(t, r) ==
    t.type = "pullRequest" =>
        /\ t.sourceBranch = AnchoredBranch(r.description, s_SourceBranchLabel)
        /\ t.targetBranch = AnchoredBranch(r.description, s_TargetBranchLabel)

\* C16: a branch field of a review record Jira or ServiceNow reads holds the value
\* of a line that is exactly the label followed by a value; without such a line
\* (no label, null or empty description, label after other text on its line, label
\* with an empty value) it is "unknown".
C16_LineAnchoredExtraction ==
    (Platform \in {"jira", "servicenow"} /\ result.status = "returned") =>
        /\ op.name \in {"getTicket", "createTicket", "updateTicket"} =>
            BranchesAnchored(result.ticket, Body(Len(calls)))
        /\ op.name = "getTickets" =>
            \A i \in DOMAIN result.list : BranchesAnchored(result.list[i], ListedRows[i])

\* the probing writes that fall back to the second resource inside a bare catch
ProbingWrite ==
    \/ Platform = "servicenow" /\ op.name \in {"updateTicket", "addComment"}
    \/ Platform = "gitlab" /\ op.name = "addComment"

\* the calls of the operation that changed a remote record
Applied == {k \in DOMAIN calls : calls[k].resp.status = "ok"}

\* C17: in one ServiceNow updateTicket, ServiceNow addComment or GitLab addComment
\* the write to the second resource is issued only after the remote rejected the
\* first write, so one call never writes to both resources under the same id.
C17_SingleWrite ==
    ProbingWrite =>
        /\ Len(calls) >= 2 => Rejected(1)
        /\ Cardinality(Applied) <= 1

\* the fields createReviewRequest and a later getTicket have to agree on
ReviewView(t) ==
    [type |-> t.type, sourceBranch |-> t.sourceBranch, targetBranch |-> t.targetBranch,
     state |-> t.state, status |-> t.status, description |-> t.description]

\* C18: the ticket getTicket returns for the id of a ticket createReviewRequest just
\* returned has the same type, sourceBranch, targetBranch, state, status and
\* description as that ticket.
C18_CreateReadConsistency ==
    (created # NoTicket /\ op.name = "getTicket" /\ result.status = "returned") =>
        ReviewView(result.ticket) = ReviewView(created)
====
